---- MODULE Spec2Model ----
(***************************************************************************)
(* GoogleSheetsWrapper (src/googlewrapper.py): one client object bound to  *)
(* one spreadsheet, its two dimension fields row_hei / row_wid, and the    *)
(* four CRUD methods, each of which issues values().update / values().get  *)
(* requests against the remote sheet.  The remote sheet is part of the     *)
(* state: a grid of cells that the requests read and write.                *)
(***************************************************************************)
EXTENDS Integers, Sequences, FiniteSets, TLC

\* Size of the remote grid that the model explores (rows x columns).
MaxRows == 2
MaxCols == 2

\* Cell contents: the empty string is an empty cell.
Cell == {"", "x"}

\* Python's None for row_hei / row_wid (googlewrapper.py:26-27).
None == -1

Rows == 1..MaxRows
Cols == 1..MaxCols

\* Argument lists passed to create_data / update_data: flat lists of cells.
ValueLists == {<<>>, <<"">>, <<"x">>, <<"", "x">>, <<"x", "x">>}

\* State of token.json on disk, as Credentials.from_authorized_user_file
\* and the properties .valid / .expired / .refresh_token see it.
TokenStates == {"absent", "valid", "expired_rt", "expired_nort"}

VARIABLES
    token,      \* contents of token.json
    client,     \* "none" before __init__ has returned, "ready" after
    creds,      \* self.creds: "none" or "valid"
    ctor,       \* how the last __init__ ended: "ok" or the step that raised
    sheet,      \* the remote grid: sheet[r][c] \in Cell
    row_hei,    \* self.row_hei
    row_wid,    \* self.row_wid
    requested,  \* TRUE once any values().get / values().update was issued
    last        \* the last method call: target row, requests issued, result

vars == <<token, client, creds, ctor, sheet, row_hei, row_wid, requested, last>>

----------------------------------------------------------------------------
\* The remote service, as reached through self.sheet.values().

Max(a, b) == IF a >= b THEN a ELSE b

\* A row as values().get returns it: trailing empty cells are omitted.
RECURSIVE TrimRow(_)
TrimRow(row) ==
    IF row = <<>> THEN <<>>
    ELSE IF row[Len(row)] = "" THEN TrimRow(SubSeq(row, 1, Len(row) - 1))
    ELSE row

\* A row list as values().get returns it: trailing empty rows are omitted.
RECURSIVE TrimRows(_)
TrimRows(rows) ==
    IF rows = <<>> THEN <<>>
    ELSE IF rows[Len(rows)] = <<>> THEN TrimRows(SubSeq(rows, 1, Len(rows) - 1))
    ELSE rows

\* values().get(range).execute() then result.get('values', []) for the
\* range "Sheet1!a<r1>:z<r2>"; "Sheet1!a:z" is rows 1..MaxRows.
GetValues(s, r1, r2) ==
    TrimRows([i \in 1..(r2 - r1 + 1) |-> TrimRow([c \in Cols |-> s[r1 + i - 1][c]])])

\* values().update(range = row r from column A, body = [vals]).execute():
\* the cells of vals overwrite row r left to right; every other cell stays.
UpdateValues(s, r, vals) ==
    [s EXCEPT ![r] = [c \in Cols |-> IF c <= Len(vals) THEN vals[c] ELSE s[r][c]]]

\* pd.DataFrame(values).shape: (number of rows, width of the widest row).
RECURSIVE WidestRow(_)
WidestRow(values) ==
    IF values = <<>> THEN 0
    ELSE Max(Len(values[Len(values)]), WidestRow(SubSeq(values, 1, Len(values) - 1)))

\* Faulty variant of DataFrameShape: the width of the first row only.
FirstRowShape(values) ==
    <<Len(values), IF values = <<>> THEN 0 ELSE Len(values[1])>>

DataFrameShape(values) == <<Len(values), WidestRow(values)>>

----------------------------------------------------------------------------
\* __init__ (googlewrapper.py:24-45).

\* Which branch of lines 30-39 obtains the credential.
CredentialPath(tok) ==
    IF tok = "valid" THEN "loaded"
    ELSE IF tok = "expired_rt" THEN "refresh"
    ELSE "flow"

\* Lines 33-39: the credential is valid when it was loaded valid, or when
\* creds.refresh / flow.run_local_server returned instead of raising.
CredentialAcquired(path, refreshOk, flowOk) ==
    \/ path = "loaded"
    \/ path = "refresh" /\ refreshOk
    \/ path = "flow" /\ flowOk

\* Faulty variant of CtorReturns: carries on after a failed refresh or a
\* refused flow.
CtorIgnoresAuthFailure(path, refreshOk, flowOk, saveOk) ==
    path = "loaded" \/ saveOk

\* __init__ returns (reaches line 45) when the credential was acquired and,
\* on the refresh / flow branch, token.json could be written (lines 41-42).
CtorReturns(path, refreshOk, flowOk, saveOk) ==
    /\ CredentialAcquired(path, refreshOk, flowOk)
    /\ path = "loaded" \/ saveOk

NoCall ==
    [op |-> "none", row |-> 0, wrote |-> FALSE, refreshed |-> FALSE,
     nUpdate |-> 0, nGet |-> 0, ret |-> "none", table |-> <<>>]

Init ==
    /\ token \in TokenStates
    /\ client = "none"
    /\ creds = "none"
    /\ ctor = "none"
    /\ sheet \in [Rows -> [Cols -> Cell]]
    /\ row_hei = None
    /\ row_wid = None
    /\ requested = FALSE
    /\ last = NoCall

Construct(refreshOk, flowOk, saveOk) ==
    /\ client = "none"
    /\ LET path == CredentialPath(token)
           acquired == CredentialAcquired(path, refreshOk, flowOk)
           returns == CtorReturns(path, refreshOk, flowOk, saveOk)
       IN /\ token' = IF path # "loaded" /\ acquired /\ saveOk THEN "valid" ELSE token
          /\ creds' = IF returns /\ acquired THEN "valid" ELSE "none"
          /\ client' = IF returns THEN "ready" ELSE "none"
          /\ ctor' = IF returns THEN "ok"
                   ELSE IF ~acquired THEN path \o "_raised"
                   ELSE "save_raised"
    /\ row_hei' = None
    /\ row_wid' = None
    /\ UNCHANGED <<sheet, requested, last>>

----------------------------------------------------------------------------
\* Faulty variant of read_data: stores the height and forgets the width.
read_data_height_only(s, hei, wid, r1, r2, getOk) ==
    IF getOk
    THEN LET values == GetValues(s, r1, r2)
         IN [hei |-> Len(values), wid |-> wid, ret |-> "df", table |-> values]
    ELSE [hei |-> hei, wid |-> wid, ret |-> "err", table |-> <<>>]

\* read_data (googlewrapper.py:98-106) as a function of the fields and the
\* remote grid: the new row_hei / row_wid (set through setrow_hei and
\* setrow_wid, lines 102-103) and the value returned.  When the get raises
\* HttpError the error is returned and neither field is touched.
read_data(s, hei, wid, r1, r2, getOk) ==
    IF getOk
    THEN LET values == GetValues(s, r1, r2)
             shape == DataFrameShape(values)
         IN [hei |-> shape[1], wid |-> shape[2], ret |-> "df", table |-> values]
    ELSE [hei |-> hei, wid |-> wid, ret |-> "err", table |-> <<>>]

ReadData(r1, r2, getOk) ==
    /\ client = "ready"
    /\ LET rd == read_data(sheet, row_hei, row_wid, r1, r2, getOk)
       IN /\ row_hei' = rd.hei
          /\ row_wid' = rd.wid
          /\ last' = [op |-> "read", row |-> 0, wrote |-> FALSE,
                      refreshed |-> FALSE, nUpdate |-> 0, nGet |-> 1,
                      ret |-> rd.ret, table |-> rd.table]
    /\ requested' = TRUE
    /\ UNCHANGED <<token, client, creds, ctor, sheet>>

----------------------------------------------------------------------------
\* Faulty variant of update_then_refresh: returns the update's response
\* without calling read_data.
update_without_refresh(s, hei, wid, r, vals, updateOk, getOk) ==
    IF updateOk /\ r \in Rows /\ Len(vals) <= MaxCols
    THEN [sheet |-> UpdateValues(s, r, vals), hei |-> hei, wid |-> wid,
          ret |-> "result", wrote |-> TRUE, refreshed |-> getOk,
          nUpdate |-> 1, nGet |-> 1]
    ELSE [sheet |-> s, hei |-> hei, wid |-> wid, ret |-> "err",
          wrote |-> FALSE, refreshed |-> FALSE, nUpdate |-> 1, nGet |-> 0]

\* The body shared by the three mutating methods (googlewrapper.py:79-87,
\* 125-133, 150-158): one values().update request; when it raises HttpError
\* the error is returned at once; otherwise self.read_data() runs with the
\* default range and its return value is dropped, and the update's response
\* is returned.  A write outside the grid is refused by the service.
update_then_refresh(s, hei, wid, r, vals, updateOk, getOk) ==
    IF updateOk /\ r \in Rows /\ Len(vals) <= MaxCols
    THEN LET s2 == UpdateValues(s, r, vals)
             rd == read_data(s2, hei, wid, 1, MaxRows, getOk)
         IN [sheet |-> s2, hei |-> rd.hei, wid |-> rd.wid, ret |-> "result",
             wrote |-> TRUE, refreshed |-> getOk, nUpdate |-> 1, nGet |-> 1]
    ELSE [sheet |-> s, hei |-> hei, wid |-> wid, ret |-> "err",
          wrote |-> FALSE, refreshed |-> FALSE, nUpdate |-> 1, nGet |-> 0]

\* An exception that is not HttpError leaves the try block uncaught: no
\* request is issued and no field changes.
raise_TypeError(s, hei, wid) ==
    [sheet |-> s, hei |-> hei, wid |-> wid, ret |-> "TypeError",
     wrote |-> FALSE, refreshed |-> FALSE, nUpdate |-> 0, nGet |-> 0]

\* create_data (googlewrapper.py:73-87): range = f"a{self.row_hei+1}";
\* None + 1 raises TypeError.
create_target(hei) == hei + 1

create_data(s, hei, wid, vals, updateOk, getOk) ==
    IF hei = None
    THEN raise_TypeError(s, hei, wid)
    ELSE update_then_refresh(s, hei, wid, create_target(hei), vals, updateOk, getOk)

\* update_data (googlewrapper.py:119-133): the caller names the range.
update_data(s, hei, wid, r, vals, updateOk, getOk) ==
    update_then_refresh(s, hei, wid, r, vals, updateOk, getOk)

\* delete_data (googlewrapper.py:144-158): values = [[""]*self.row_wid];
\* "" * None raises TypeError.
blank_row(wid) == [c \in 1..wid |-> ""]

\* Faulty variant of delete_data: removes the row and shifts the rows below
\* it up.
delete_data_removing_row(s, hei, wid, r, updateOk, getOk) ==
    IF wid = None
    THEN raise_TypeError(s, hei, wid)
    ELSE IF ~updateOk
    THEN update_then_refresh(s, hei, wid, r, blank_row(wid), updateOk, getOk)
    ELSE LET s2 == [i \in Rows |->
                       IF i < r THEN s[i]
                       ELSE IF i < MaxRows THEN s[i + 1]
                       ELSE [c \in Cols |-> ""]]
             rd == read_data(s2, hei, wid, 1, MaxRows, getOk)
         IN [sheet |-> s2, hei |-> rd.hei, wid |-> rd.wid, ret |-> "result",
             wrote |-> TRUE, refreshed |-> getOk, nUpdate |-> 1, nGet |-> 1]

delete_data(s, hei, wid, r, updateOk, getOk) ==
    IF wid = None
    THEN raise_TypeError(s, hei, wid)
    ELSE update_then_refresh(s, hei, wid, r, blank_row(wid), updateOk, getOk)

\* One call of a mutating method: the fields, the grid and the call record.
Mutate(op, r, res) ==
    /\ sheet' = res.sheet
    /\ row_hei' = res.hei
    /\ row_wid' = res.wid
    /\ requested' = (requested \/ res.nUpdate > 0)
    /\ last' = [op |-> op, row |-> r, wrote |-> res.wrote,
                refreshed |-> res.refreshed, nUpdate |-> res.nUpdate,
                nGet |-> res.nGet, ret |-> res.ret, table |-> <<>>]
    /\ UNCHANGED <<token, client, creds, ctor>>

CreateData(vals, updateOk, getOk) ==
    /\ client = "ready"
    /\ Mutate("create", IF row_hei = None THEN 0 ELSE create_target(row_hei),
              create_data(sheet, row_hei, row_wid, vals, updateOk, getOk))

UpdateData(r, vals, updateOk, getOk) ==
    /\ client = "ready"
    /\ Mutate("update", r,
              update_data(sheet, row_hei, row_wid, r, vals, updateOk, getOk))

DeleteData(r, updateOk, getOk) ==
    /\ client = "ready"
    /\ Mutate("delete", r,
              delete_data(sheet, row_hei, row_wid, r, updateOk, getOk))

\* How the two requests of a mutating call can end: <<update succeeded, get
\* succeeded>>, each .execute() either returning or raising HttpError; the
\* get is not issued when the update raised.
Outcomes == {<<TRUE, TRUE>>, <<TRUE, FALSE>>, <<FALSE, FALSE>>}

Next ==
    \/ \E refreshOk, flowOk, saveOk \in BOOLEAN : Construct(refreshOk, flowOk, saveOk)
    \/ \E r1 \in Rows : \E r2 \in r1..MaxRows : \E getOk \in BOOLEAN :
           ReadData(r1, r2, getOk)
    \/ \E vals \in ValueLists : \E o \in Outcomes :
           CreateData(vals, o[1], o[2])
    \/ \E r \in Rows : \E vals \in ValueLists : \E o \in Outcomes :
           UpdateData(r, vals, o[1], o[2])
    \/ \E r \in Rows : \E o \in Outcomes : DeleteData(r, o[1], o[2])

Spec == Init /\ [][Next]_vars

----------------------------------------------------------------------------
\* Vocabulary of the properties.

\* The whole sheet as a read_data() with the default range returns it.
FullValues(s) == GetValues(s, 1, MaxRows)

\* Dimensions of the remote sheet: the last row and the last column that
\* hold a non-empty cell (0 for an empty sheet).
SheetHeight(s) ==
    LET used == {r \in Rows : \E c \in Cols : s[r][c] # ""}
    IN IF used = {} THEN 0 ELSE CHOOSE r \in used : \A q \in used : q <= r

SheetWidth(s) ==
    LET used == {c \in Cols : \E r \in Rows : s[r][c] # ""}
    IN IF used = {} THEN 0 ELSE CHOOSE c \in used : \A q \in used : q <= c

FullShape(s) == <<SheetHeight(s), SheetWidth(s)>>

\* Dimension knowledge: both fields unset, or both set.
Unknown == row_hei = None /\ row_wid = None
Known == row_hei # None /\ row_wid # None

Mutators == {"create", "update", "delete"}

\* The last call was a mutating method that returned a value (the update's
\* response or the HttpError), as opposed to raising.
MutatorReturned(call) == call.op \in Mutators /\ call.ret \in {"result", "err"}

\* Width of the widest row of a table, stated without recursion.
WidestOf(table) ==
    IF table = <<>> THEN 0
    ELSE CHOOSE w \in {Len(table[i]) : i \in 1..Len(table)} :
             \A j \in 1..Len(table) : Len(table[j]) <= w

----------------------------------------------------------------------------
\* C1 (as stated): whenever a mutating call has returned, it has re-read the
\* sheet, and row_hei / row_wid are the dimensions of the remote sheet as it
\* is after the call, whatever the remote requests did.
C1_AlwaysRefreshed ==
    MutatorReturned(last) =>
        /\ last.nGet = 1
        /\ <<row_hei, row_wid>> = FullShape(sheet)

\* C1 (amended): a mutating call that returns issues its re-read exactly when
\* its update request succeeded.  If the re-read succeeds the two fields are
\* the dimensions of the sheet after the write; if the re-read fails, or the
\* update failed, both fields keep the values they had before the call, and
\* a failed update leaves the sheet as it was.
C1_RefreshAfterWrite ==
    [][MutatorReturned(last') =>
          /\ last'.nGet = (IF last'.wrote THEN 1 ELSE 0)
          /\ (last'.wrote /\ last'.refreshed)
                => <<row_hei', row_wid'>> = FullShape(sheet')
          /\ ~(last'.wrote /\ last'.refreshed)
                => row_hei' = row_hei /\ row_wid' = row_wid
          /\ ~last'.wrote => sheet' = sheet]_vars

\* A mutating call wrote a non-empty sheet, refreshed, and the fields hold the
\* dimensions of that sheet.
C1_Witness ==
    /\ MutatorReturned(last)
    /\ last.wrote /\ last.refreshed
    /\ FullValues(sheet) # <<>>
    /\ <<row_hei, row_wid>> = FullShape(sheet)

----------------------------------------------------------------------------
\* C2: a create_data call made when row_hei = n, whose update and refresh
\* both succeeded and which wrote a non-empty row, wrote its values to row
\* n+1, the row is at position n+1 of a following read, and row_hei is n+1
\* afterwards.
C2_AppendAtNextRow ==
    [][(/\ last'.op = "create" /\ last'.ret = "result" /\ last'.refreshed
        /\ TrimRow(sheet'[last'.row]) # <<>>) =>
          /\ last'.row = row_hei + 1
          /\ \E vals \in ValueLists : sheet' = UpdateValues(sheet, row_hei + 1, vals)
          /\ Len(FullValues(sheet')) >= row_hei + 1
          /\ row_hei' = row_hei + 1]_vars

----------------------------------------------------------------------------
\* C3: after a read_data call that returned a table, row_hei is the number
\* of rows of that table and row_wid the width of its widest row (0 and 0 for
\* an empty table), for every range read.
C3_ReadSetsShape ==
    (last.op = "read" /\ last.ret = "df") =>
        /\ row_hei = Len(last.table)
        /\ row_wid = WidestOf(last.table)
        /\ last.table = <<>> => row_hei = 0 /\ row_wid = 0

\* A read returned a jagged table whose first row is not its widest.
C3_Witness ==
    /\ last.op = "read" /\ last.ret = "df"
    /\ Len(last.table) >= 2
    /\ Len(last.table[1]) < Len(last.table[2])
    /\ row_hei = Len(last.table)
    /\ row_wid = Len(last.table[2])

----------------------------------------------------------------------------
\* C4 (as stated): a delete_data call that returns the update's response on
\* a client with known dimensions blanks row_wid cells of the target row,
\* moves no other row, the target row is still a row of a following read,
\* and row_hei / row_wid are what they were before the call.
C4_BlankOutKeepsDimensions ==
    [][(last'.op = "delete" /\ last'.ret = "result" /\ Known) =>
          /\ \A r \in Rows : \A c \in Cols :
                sheet'[r][c] = IF r = last'.row /\ c <= row_wid THEN "" ELSE sheet[r][c]
          /\ last'.row <= Len(FullValues(sheet'))
          /\ row_hei' = row_hei
          /\ row_wid' = row_wid]_vars

\* C4 (amended): such a delete_data call blanks exactly the first row_wid
\* cells of the target row and changes no other cell, so no row shifts.  The
\* target row is a row of a following read exactly when it or a later row
\* still holds a non-empty cell.  After a successful refresh row_hei and
\* row_wid are the dimensions of the sheet as read after the blank-out, which
\* never exceed the sheet's dimensions before the call; after a failed
\* refresh both fields keep their values.
C4_BlankOut ==
    [][(last'.op = "delete" /\ last'.ret = "result" /\ Known) =>
          /\ \A r \in Rows : \A c \in Cols :
                sheet'[r][c] = IF r = last'.row /\ c <= row_wid THEN "" ELSE sheet[r][c]
          /\ (last'.row <= Len(FullValues(sheet')))
                <=> (\E r \in last'.row..MaxRows : \E c \in Cols : sheet'[r][c] # "")
          /\ last'.refreshed =>
                /\ <<row_hei', row_wid'>> = FullShape(sheet')
                /\ row_hei' <= FullShape(sheet)[1]
                /\ row_wid' <= FullShape(sheet)[2]
          /\ ~last'.refreshed => row_hei' = row_hei /\ row_wid' = row_wid]_vars

\* A delete blanked a whole row above a non-empty row: the blank row is
\* still in the sheet as read, and the fields hold the refreshed dimensions.
C4_Witness ==
    /\ last.op = "delete" /\ last.ret = "result" /\ last.refreshed
    /\ last.row < row_hei
    /\ \A c \in Cols : sheet[last.row][c] = ""
    /\ FullValues(sheet)[last.row] = <<>>
    /\ <<row_hei, row_wid>> = FullShape(sheet)

----------------------------------------------------------------------------
\* C5: every call issues each request at most once, and a call during which
\* a request failed hands an error to its caller.
C5_FailureSurfaced ==
    /\ last.nUpdate <= 1 /\ last.nGet <= 1
    /\ (last.op = "read" /\ last.table = <<>> /\ last.ret # "df") => last.ret = "err"
    /\ (last.op \in Mutators /\ last.nUpdate = 1 /\ ~last.wrote) => last.ret = "err"
    /\ (last.op \in Mutators /\ last.nGet = 1 /\ ~last.refreshed) => last.ret = "err"

----------------------------------------------------------------------------
\* C6: create_data on a client whose row_hei is still unset issues its write
\* at row 1 of column A and does not fail with an exception.
C6_AppendFromUnknownWritesRow1 ==
    [][(last'.op = "create" /\ row_hei = None) =>
          /\ last'.ret # "TypeError"
          /\ last'.nUpdate = 1
          /\ last'.row = 1]_vars

----------------------------------------------------------------------------
\* C7 (as stated): the fields are both unset or both set; a mutating call
\* that returns ends with both set, whatever the state it started in; and no
\* call unsets them.
C7_MutatorsEndKnown ==
    [][/\ Unknown' \/ Known'
       /\ Known => Known'
       /\ MutatorReturned(last') => Known']_vars

\* C7 (amended): the fields are both unset (as after __init__) or both set;
\* a mutating call ends with both set exactly when it started with both set
\* or its update and its refresh both succeeded; no call unsets them.
C7_KnowledgeStates ==
    [][/\ Unknown' \/ Known'
       /\ Known => Known'
       /\ client' = "none" => Unknown'
       /\ last'.op \in Mutators =>
             (Known' <=> (Known \/ (last'.wrote /\ last'.refreshed)))]_vars

\* An update_data call has written and refreshed, and both fields are set.
C7_Witness ==
    /\ last.op = "update" /\ last.ret = "result"
    /\ last.wrote /\ last.refreshed
    /\ Known

----------------------------------------------------------------------------
\* C8: a constructed client holds a valid credential; a construction that
\* raised (no stored credential and a refused flow among the causes) leaves
\* no client; and no values().get / values().update request is issued while
\* no client with a valid credential exists.
C8_NoRequestBeforeCredential ==
    /\ client = "ready" => creds = "valid" /\ ctor = "ok"
    /\ ctor \in {"flow_raised", "refresh_raised", "save_raised"} => client = "none"
    /\ client = "none" => ~requested /\ last = NoCall /\ Unknown
    /\ requested => creds = "valid"

\* No token.json, the interactive flow was refused: __init__ raised, there
\* is no client and no request was issued.
C8_Witness ==
    /\ token = "absent"
    /\ ctor = "flow_raised"
    /\ client = "none"
    /\ ~requested

----------------------------------------------------------------------------
\* C9 (single caller): of two successive create_data calls that both wrote,
\* the second never targets the row of the first, changing the non-empty row
\* the first left there.
C9_SerializedAppendsDistinctRows ==
    [][(/\ last.op = "create" /\ last.wrote
        /\ last'.op = "create" /\ last'.wrote
        /\ TrimRow(sheet[last.row]) # <<>>
        /\ sheet'[last.row] # sheet[last.row])
          => last'.row # last.row]_vars

----------------------------------------------------------------------------
\* C10: a create_data call on a client with known dimensions, whose update
\* and refresh both succeeded, changes no row the sheet already had.
C10_AppendKeepsExistingRows ==
    [][(last'.op = "create" /\ last'.ret = "result" /\ last'.refreshed /\ Known) =>
          \A r \in 1..Len(FullValues(sheet)) : sheet'[r] = sheet[r]]_vars

====
